---- MODULE Spec2Model ----
(***************************************************************************)
(* Roster tools of cangjie-repo-robot (tools/*.py).                        *)
(*                                                                         *)
(* Each script is a program of its own that is run once on the roster file *)
(* team.json: a behaviour of Spec is one run of one script.  Init is the   *)
(* state after argument parsing (the script chosen, its arguments, the     *)
(* roster file on disk); the actions are the steps of the script's main.   *)
(* The file named by --in / --merge-existing and by --out is the same      *)
(* file, `disk`.                                                           *)
(*                                                                         *)
(* Python str values on which the code computes (strip, lower, split, re)  *)
(* are sequences of one-character strings ("U4ED3" is the character with   *)
(* that code point); a value that is not a str (None, a JSON null) is the  *)
(* sequence None.  Python dicts are functions whose DOMAIN is the set of   *)
(* keys present.                                                           *)
(***************************************************************************)
EXTENDS Integers, Sequences, FiniteSets, TLC

(***************************************************************************)
(* Bounds                                                                  *)
(***************************************************************************)
\* longest collaborators list one fetch returns
MaxMembers == 2

(***************************************************************************)
(* Characters and strings                                                  *)
(***************************************************************************)
UpperCase == <<"A", "B", "C", "D", "E", "F", "G", "H", "I", "J", "K", "L", "M", "N", "O", "P", "Q", "R", "S", "T", "U", "V", "W", "X", "Y", "Z">>
LowerCase == <<"a", "b", "c", "d", "e", "f", "g", "h", "i", "j", "k", "l", "m", "n", "o", "p", "q", "r", "s", "t", "u", "v", "w", "x", "y", "z">>
Digits == <<"0", "1", "2", "3", "4", "5", "6", "7", "8", "9">>

\* the characters in code point order (key of sorted() on str)
CodeOrder == <<" ", "-", ".">> \o Digits \o <<"@">> \o UpperCase \o LowerCase \o <<"U4ED3", "U53D1", "U5F00", "U8005", "U9889">>

Range(s) == {s[i] : i \in 1..Len(s)}

\* a value that is not a str
None == <<"<None>">>

isinstance_str(v) == v # None

IsSpace(c) == c \in {" ", "\t", "\n"}

IsDigit(c) == c \in Range(Digits)

IsAsciiLetter(c) == c \in Range(UpperCase) \cup Range(LowerCase)

LowerChar(c) == IF c \in Range(UpperCase) THEN LowerCase[CHOOSE i \in 1..Len(UpperCase) : UpperCase[i] = c] ELSE c

\* str.lower()
lower(s) == [i \in 1..Len(s) |-> LowerChar(s[i])]

RECURSIVE lstrip(_)
lstrip(s) == IF s # <<>> /\ IsSpace(Head(s)) THEN lstrip(Tail(s)) ELSE s

RECURSIVE rstrip(_)
rstrip(s) == IF s # <<>> /\ IsSpace(s[Len(s)]) THEN rstrip(SubSeq(s, 1, Len(s) - 1)) ELSE s

\* str.strip()
strip(s) == rstrip(lstrip(s))

\* sub in s
Contains(s, sub) == \E i \in 0..(Len(s) - Len(sub)) : SubSeq(s, i + 1, i + Len(sub)) = sub

\* s.endswith(suffix)
endswith(s, suffix) == Len(s) >= Len(suffix) /\ SubSeq(s, Len(s) - Len(suffix) + 1, Len(s)) = suffix

\* s.startswith(prefix)
startswith(s, prefix) == Len(s) >= Len(prefix) /\ SubSeq(s, 1, Len(prefix)) = prefix

\* a < b for str a, b (code point order)
Code(c) == CHOOSE i \in 1..Len(CodeOrder) : CodeOrder[i] = c

RECURSIVE StrLess(_, _)
StrLess(a, b) == IF b = <<>> THEN FALSE ELSE IF a = <<>> THEN TRUE ELSE IF Head(a) = Head(b) THEN StrLess(Tail(a), Tail(b)) ELSE Code(Head(a)) < Code(Head(b))

S_alice == <<"a", "l", "i", "c", "e">>
S_bob == <<"b", "o", "b">>
S_AliceZhang == <<"A", "l", "i", "c", "e", " ", "Z", "h", "a", "n", "g">>
S_zhangsan == <<"z", "h", "a", "n", "g", "s", "a", "n">>
S_corp_email == <<"z", "h", "a", "n", "g", ".", "s", "a", "n", "3", "@", "h", "u", "a", "w", "e", "i", ".", "c", "o", "m">>
S_other_email == <<"b", "o", "b", "@", "e", "x", "a", "m", "p", "l", "e", ".", "c", "o", "m">>
S_blank == <<" ">>
S_committer_cn == <<"U4ED3", "U9889", "C", "o", "m", "m", "i", "t", "t", "e", "r">>
S_committer_cn_lc == <<"U4ED3", "U9889", "c", "o", "m", "m", "i", "t", "t", "e", "r">>
S_developer_cn == <<"U5F00", "U53D1", "U8005">>
S_developer == <<"d", "e", "v", "e", "l", "o", "p", "e", "r">>
S_committer == <<"c", "o", "m", "m", "i", "t", "t", "e", "r">>
S_colon_committer == <<":", "c", "o", "m", "m", "i", "t", "t", "e", "r">>
S_huawei == <<"h", "u", "a", "w", "e", "i">>
S_hpartners == <<"h", "-", "p", "a", "r", "t", "n", "e", "r", "s">>

(***************************************************************************)
(* dict                                                                    *)
(***************************************************************************)
EmptyDict == [k \in {} |-> TRUE]

\* d.get(k, default)
Get(d, k, default) == IF k \in DOMAIN d THEN d[k] ELSE default

\* d[k] = v
Put(d, k, v) == [x \in (DOMAIN d) \cup {k} |-> IF x = k THEN v ELSE d[x]]

\* d.pop(k, None)
Pop(d, k) == [x \in (DOMAIN d) \ {k} |-> d[x]]

\* d.setdefault(k, v)
SetDefault(d, k, v) == IF k \in DOMAIN d THEN d ELSE Put(d, k, v)

(***************************************************************************)
(* Role Classifier                                                         *)
(***************************************************************************)
norm_role_name_cn(s) == IF ~isinstance_str(s) THEN <<>> ELSE SelectSeq(s, LAMBDA c : ~IsSpace(c))

\* is_cangjie_committer_role that compares role_name as it is written, without lowercasing it
is_cangjie_committer_role_nolower(role_name_cn, role_name) ==
    LET cn == norm_role_name_cn(role_name_cn)
        rn == IF isinstance_str(role_name) THEN strip(role_name) ELSE <<>>
    IN  IF cn \in {S_committer_cn, S_committer_cn_lc} THEN TRUE
        ELSE IF rn = <<>> THEN FALSE
        ELSE Contains(rn, S_committer) \/ endswith(rn, S_colon_committer) \/ rn = S_committer

is_cangjie_committer_role(role_name_cn, role_name) ==
    LET cn == norm_role_name_cn(role_name_cn)
        rn == IF isinstance_str(role_name) THEN strip(lower(role_name)) ELSE <<>>
    IN  IF cn \in {S_committer_cn, S_committer_cn_lc} THEN TRUE
        ELSE IF rn = <<>> THEN FALSE
        ELSE Contains(rn, S_committer) \/ endswith(rn, S_colon_committer) \/ rn = S_committer

\* any(is_cangjie_committer_role(r.roleNameCn, r.roleName) for r in repos)
AnyCommitter(repos) == \E i \in 1..Len(repos) : is_cangjie_committer_role(Get(repos[i], "roleNameCn", None), Get(repos[i], "roleName", None))

(***************************************************************************)
(* JSON values                                                             *)
(***************************************************************************)
\* a JSON document whose top level is an array, not an object
JsonArray == [notAnObject |-> TRUE]

isinstance_dict(v) == v # JsonArray

\* a value under "people" that is not a list
NotAList == <<[notAList |-> TRUE]>>

isinstance_list(v) == v # NotAList

\* obj.get("people") when the key is missing: None, which is not a list
GetPeople(obj) == Get(obj, "people", NotAList)

\* p.get("repos"), replaced by [] when it is not a list
ReposOf(p) == Get(p, "repos", <<>>)

\* (r.get("owner"), r.get("repo"))
KeyOf(r) == <<Get(r, "owner", None), Get(r, "repo", None)>>

(***************************************************************************)
(* collect_gitcode_members.py                                              *)
(***************************************************************************)
\* --per-page default
PerPage == 100

RECURSIVE unique_repos(_)
unique_repos(repos) ==
    IF repos = <<>> THEN <<>>
    ELSE LET init == unique_repos(SubSeq(repos, 1, Len(repos) - 1))
             key == repos[Len(repos)]
         IN  IF key \in Range(init) THEN init ELSE Append(init, key)

pick_real_name(member) ==
    LET Good(k) == isinstance_str(Get(member, k, None)) /\ strip(Get(member, k, None)) # <<>>
    IN  IF Good("name_cn") THEN strip(member["name_cn"])
        ELSE IF Good("name") THEN strip(member["name"])
        ELSE IF Good("nick_name") THEN strip(member["nick_name"])
        ELSE IF Good("username") THEN strip(member["username"])
        ELSE <<>>

to_str_id(v) == IF v = None THEN <<>> ELSE v

\* username -> person of the prior roster; a later record of a username replaces an earlier one
index_people(existing) ==
    LET people == GetPeople(existing)
        Named(i) == isinstance_str(Get(people[i], "username", None)) /\ strip(Get(people[i], "username", None)) # <<>>
        Keys == IF isinstance_list(people) THEN {strip(people[i]["username"]) : i \in {j \in 1..Len(people) : Named(j)}} ELSE {}
        Last(u) == CHOOSE i \in 1..Len(people) : /\ Named(i) /\ strip(people[i]["username"]) = u
                                                 /\ \A j \in (i + 1)..Len(people) : ~(Named(j) /\ strip(people[j]["username"]) = u)
    IN  [u \in Keys |-> people[Last(u)]]

\* MergeRepos with the entry of a key already present replaced by the incoming one
RECURSIVE MergeRepos_replace(_, _)
MergeRepos_replace(merged_repos, incoming_repos) ==
    IF incoming_repos = <<>> THEN merged_repos
    ELSE LET r == Head(incoming_repos)
             seen == {KeyOf(merged_repos[i]) : i \in 1..Len(merged_repos)}
         IN  MergeRepos_replace(IF KeyOf(r) \notin seen THEN Append(merged_repos, r)
                                ELSE [i \in 1..Len(merged_repos) |-> IF KeyOf(merged_repos[i]) = KeyOf(r) THEN r ELSE merged_repos[i]], Tail(incoming_repos))

\* MergeRepos without the test on seen
MergeRepos_always_append(merged_repos, incoming_repos) == merged_repos \o incoming_repos

\* MergeRepos with seen holding the owners instead of the (owner, repo) keys
RECURSIVE MergeRepos_owner_only(_, _)
MergeRepos_owner_only(merged_repos, incoming_repos) ==
    IF incoming_repos = <<>> THEN merged_repos
    ELSE LET r == Head(incoming_repos)
             seen == {Get(merged_repos[i], "owner", None) : i \in 1..Len(merged_repos)}
         IN  MergeRepos_owner_only(IF KeyOf(r) \notin seen THEN Append(merged_repos, r) ELSE merged_repos, Tail(incoming_repos))

\* the repos list after the loop over incoming["repos"]
RECURSIVE MergeRepos(_, _)
MergeRepos(merged_repos, incoming_repos) ==
    IF incoming_repos = <<>> THEN merged_repos
    ELSE LET r == Head(incoming_repos)
             seen == {KeyOf(merged_repos[i]) : i \in 1..Len(merged_repos)}
         IN  MergeRepos(IF KeyOf(r) \notin seen THEN Append(merged_repos, r) ELSE merged_repos, Tail(incoming_repos))

\* KeepOrFill without the test: the incoming value always wins
KeepOrFill_overwrite(merged, incoming, field) == Put(merged, field, Get(incoming, field, <<>>))

\* keeps the field when it is a str that is not blank, else takes the incoming one
KeepOrFill(merged, incoming, field) ==
    IF isinstance_str(Get(merged, field, None)) /\ strip(Get(merged, field, None)) # <<>> THEN merged
    ELSE Put(merged, field, Get(incoming, field, <<>>))

\* merge_person without merged.pop("isCommitterManual", None)
merge_person_keeps_manual(existing, incoming) ==
    LET m1 == Put(existing, "gitcodeId", Get(incoming, "gitcodeId", Get(existing, "gitcodeId", <<>>)))
        m2 == KeepOrFill(m1, incoming, "realName")
        m3 == KeepOrFill(m2, incoming, "email")
        m5 == SetDefault(SetDefault(SetDefault(SetDefault(m3, "isConfirmed", FALSE), "isLeader", FALSE), "notes", <<>>), "groups", <<>>)
        merged_repos == MergeRepos(ReposOf(m5), Get(incoming, "repos", <<>>))
        m6 == Put(m5, "repos", merged_repos)
    IN  Put(m6, "isCommitter", AnyCommitter(merged_repos))

merge_person(existing, incoming) ==
    LET m1 == Put(existing, "gitcodeId", Get(incoming, "gitcodeId", Get(existing, "gitcodeId", <<>>)))
        m2 == KeepOrFill(m1, incoming, "realName")
        m3 == KeepOrFill(m2, incoming, "email")
        m4 == Pop(m3, "isCommitterManual")
        m5 == SetDefault(SetDefault(SetDefault(SetDefault(m4, "isConfirmed", FALSE), "isLeader", FALSE), "notes", <<>>), "groups", <<>>)
        merged_repos == MergeRepos(ReposOf(m5), Get(incoming, "repos", <<>>))
        m6 == Put(m5, "repos", merged_repos)
    IN  Put(m6, "isCommitter", AnyCommitter(merged_repos))

\* the value of the str field k of a raw member, "" when it is not a str
StrField(m, k) == IF isinstance_str(Get(m, k, None)) THEN m[k] ELSE <<>>

\* the observation main builds from the raw member m of (owner, repo); looked is the result of try_lookup_email
Incoming(m, owner, repo, email_lookup, looked) ==
    LET email0 == strip(StrField(m, "email"))
        email == IF email_lookup /\ email0 = <<>> /\ looked # None THEN looked ELSE email0
        permissions == Get(m, "permissions", "null")
    IN  [username |-> strip(m["username"]),
         gitcodeId |-> to_str_id(Get(m, "id", None)),
         realName |-> pick_real_name(m),
         email |-> email,
         isConfirmed |-> FALSE,
         isCommitter |-> is_cangjie_committer_role(StrField(m, "role_name_cn"), StrField(m, "role_name")),
         isLeader |-> FALSE,
         notes |-> <<>>,
         groups |-> <<>>,
         repos |-> << [owner |-> owner, repo |-> repo,
                       permission |-> StrField(m, "permission"),
                       roleName |-> StrField(m, "role_name"),
                       roleNameCn |-> StrField(m, "role_name_cn"),
                       accessLevel |-> Get(m, "access_level", "null"),
                       permissions |-> IF permissions = "null" THEN "{}" ELSE permissions] >>]

\* the body of the loop over members for one raw member
FoldMember(people_by_username, existing_people, m, owner, repo, email_lookup, looked) ==
    IF ~(isinstance_str(Get(m, "username", None)) /\ strip(Get(m, "username", None)) # <<>>) THEN people_by_username
    ELSE LET incoming == Incoming(m, owner, repo, email_lookup, looked)
             username == incoming.username
         IN  IF username \in DOMAIN people_by_username
             THEN Put(people_by_username, username, merge_person(people_by_username[username], incoming))
             ELSE IF username \in DOMAIN existing_people
             THEN Put(people_by_username, username, merge_person(existing_people[username], incoming))
             ELSE Put(people_by_username, username, incoming)

\* SortedByUsername that compares the usernames without regard to case
RECURSIVE SortedByUsername_caseless(_)
SortedByUsername_caseless(people) ==
    IF people = {} THEN <<>>
    ELSE LET UName(p) == lower(Get(p, "username", <<>>))
             least == CHOOSE p \in people : \A q \in people : ~StrLess(UName(q), UName(p))
         IN  <<least>> \o SortedByUsername_caseless(people \ {least})

\* sorted(people_by_username.values(), key=username): the keys are distinct, usernames as stored
RECURSIVE SortedByUsername(_)
SortedByUsername(people) ==
    IF people = {} THEN <<>>
    ELSE LET UName(p) == Get(p, "username", <<>>)
             least == CHOOSE p \in people : \A q \in people : ~StrLess(UName(q), UName(p))
         IN  <<least>> \o SortedByUsername(people \ {least})

\* the Source entry of a fetch that succeeded: pages of per_page members, then a shorter page
SourceOk(key, now, ms) == [owner |-> key[1], repo |-> key[2], fetchedAt |-> now, pageSize |-> PerPage, pagesFetched |-> (Len(ms) \div PerPage) + 1, memberCount |-> Len(ms)]

\* the Source entry of a fetch that raised RuntimeError
SourceError(key, now) == [owner |-> key[1], repo |-> key[2], fetchedAt |-> now, pageSize |-> PerPage, pagesFetched |-> 0, memberCount |-> 0, notes |-> "error: RuntimeError"]

\* out_obj of main
OutObj(existing, sources, people_by_username, now) ==
    [schemaVersion |-> "team.v1",
     updatedAt |-> now,
     team |-> Get(existing, "team", <<>>),
     sources |-> sources,
     groups |-> Get(existing, "groups", <<>>),
     people |-> SortedByUsername({people_by_username[u] : u \in DOMAIN people_by_username})]

(***************************************************************************)
(* migrate_remove_committer_auto.py                                        *)
(***************************************************************************)
\* RemoveCommitterAutoPerson without the recomputation of isCommitter
RemoveCommitterAutoPerson_keep(p) == Pop(Pop(p, "isCommitterAuto"), "isCommitterManual")

\* RemoveCommitterAutoPerson with isCommitter taken from the legacy manual flag (compute_final)
RemoveCommitterAutoPerson_manual(p) == Put(Pop(Pop(p, "isCommitterAuto"), "isCommitterManual"), "isCommitter", Get(p, "isCommitterManual", FALSE) = TRUE)

\* the body of the loop of process for one person
RemoveCommitterAutoPerson(p) == Put(Pop(Pop(p, "isCommitterAuto"), "isCommitterManual"), "isCommitter", AnyCommitter(ReposOf(p)))

process_remove_committer_auto(obj, now) ==
    IF ~isinstance_list(GetPeople(obj)) THEN obj
    ELSE Put(Put(obj, "people", [i \in 1..Len(obj["people"]) |-> RemoveCommitterAutoPerson(obj["people"][i])]), "updatedAt", now)

(***************************************************************************)
(* migrate_team_to_groups_only.py                                          *)
(***************************************************************************)
\* TrimGroups that keeps the last entry of the list
TrimGroups_last(groups) == IF Len(groups) > 1 THEN <<groups[Len(groups)]>> ELSE groups

\* p["groups"] = [groups[0]] when groups has more than one entry
TrimGroups(groups) == IF Len(groups) > 1 THEN <<groups[1]>> ELSE groups

\* the body of the loop of process for one person
TeamToGroupsPerson(p) ==
    LET p1 == Pop(p, "team")
    IN  IF "groups" \in DOMAIN p1 THEN Put(p1, "groups", TrimGroups(p1["groups"])) ELSE p1

process_team_to_groups_only(obj, now) ==
    LET o1 == Pop(obj, "team")
        o2 == IF isinstance_list(GetPeople(o1)) THEN Put(o1, "people", [i \in 1..Len(o1["people"]) |-> TeamToGroupsPerson(o1["people"][i])]) ELSE o1
    IN  Put(o2, "updatedAt", now)

(***************************************************************************)
(* refresh_realname_from_email.py                                          *)
(***************************************************************************)
\* EMAIL_DOMAIN_RE.search(email): "@", huawei or h-partners in any case, then the end or "." and one or more characters other than "@" up to the end
EMAIL_DOMAIN_RE(email) ==
    \E i \in 1..Len(email) : \E d \in {S_huawei, S_hpartners} :
        LET rest == SubSeq(email, i + 1, Len(email))
            tail == SubSeq(rest, Len(d) + 1, Len(rest))
        IN  /\ email[i] = "@"
            /\ startswith(lower(rest), d)
            /\ \/ tail = <<>>
               \/ tail = <<"\n">>
               \/ Len(tail) >= 2 /\ Head(tail) = "." /\ "@" \notin Range(Tail(tail))

\* email.split("@", 1)[0]
LocalPart(email) == SubSeq(email, 1, (CHOOSE i \in 1..Len(email) : email[i] = "@" /\ \A j \in 1..(i - 1) : email[j] # "@") - 1)

derive_pinyin_from_email(email) ==
    LET e == strip(email)
    IN  IF e = <<>> \/ "@" \notin Range(e) THEN <<>>
        ELSE IF ~EMAIL_DOMAIN_RE(e) THEN <<>>
        ELSE lower(SelectSeq(SelectSeq(LocalPart(e), LAMBDA c : ~IsDigit(c)), IsAsciiLetter))

\* should_overwrite_realname that compares the names as they are stored, without trimming them
should_overwrite_realname_nostrip(real_name, username) ==
    IF real_name = <<>> THEN TRUE ELSE IF real_name = username THEN TRUE ELSE FALSE

should_overwrite_realname(real_name, username) ==
    LET rn == strip(real_name)
        un == strip(username)
    IN  IF rn = <<>> THEN TRUE ELSE IF rn = un THEN TRUE ELSE FALSE

\* the body of the loop of process for one person
RealnamePerson(p) ==
    LET email == Get(p, "email", None)
        username == Get(p, "username", <<>>)
        real_name == IF Get(p, "realName", None) = None THEN <<>> ELSE p["realName"]
        derived == derive_pinyin_from_email(IF isinstance_str(email) THEN email ELSE <<>>)
    IN  IF derived = <<>> THEN p
        ELSE IF should_overwrite_realname(real_name, IF username = None THEN <<>> ELSE username) THEN Put(p, "realName", derived)
        ELSE p

process_realname_from_email(obj, default_team, now) ==
    LET o1 == SetDefault(obj, "team", default_team)
    IN  IF ~isinstance_list(GetPeople(o1)) THEN o1
        ELSE LET o2 == Put(o1, "people", [i \in 1..Len(o1["people"]) |-> RealnamePerson(o1["people"][i])])
             IN  IF "updatedAt" \in DOMAIN o2 THEN Put(o2, "updatedAt", now) ELSE o2

(***************************************************************************)
(* refresh_member_roles.py                                                 *)
(***************************************************************************)
\* the body of the loop of recompute_committers for one person
RecomputePerson(p) ==
    LET p1 == Pop(p, "isCommitterManual")
        v == AnyCommitter(ReposOf(p1))
    IN  IF ("isCommitter" \notin DOMAIN p1) \/ p1["isCommitter"] # v THEN Put(p1, "isCommitter", v) ELSE p1

recompute_committers(team) ==
    IF ~isinstance_list(GetPeople(team)) THEN team
    ELSE Put(team, "people", [i \in 1..Len(team["people"]) |-> RecomputePerson(team["people"][i])])

\* Refreshable that does not look at isConfirmed
Refreshable_confirmed_too(p, include_confirmed) ==
    /\ isinstance_str(Get(p, "username", None)) /\ strip(Get(p, "username", None)) # <<>>
    /\ "repos" \in DOMAIN p

\* p is a person whose repos entries iter_repo_entries returns
Refreshable(p, include_confirmed) ==
    /\ ~((~include_confirmed) /\ Get(p, "isConfirmed", FALSE) = TRUE)
    /\ isinstance_str(Get(p, "username", None)) /\ strip(Get(p, "username", None)) # <<>>
    /\ "repos" \in DOMAIN p

\* r is a repos entry iter_repo_entries returns; only_repos = {} stands for None
EntrySelected(r, only_repos) ==
    /\ isinstance_str(Get(r, "owner", None)) /\ isinstance_str(Get(r, "repo", None))
    /\ (only_repos = {} \/ KeyOf(r) \in only_repos)

\* by_repo.keys()
by_repo_keys(team, only_repos, include_confirmed) ==
    LET people == GetPeople(team)
    IN  IF ~isinstance_list(people) THEN {}
        ELSE UNION {{KeyOf(people[i]["repos"][j]) : j \in {k \in 1..Len(people[i]["repos"]) : EntrySelected(people[i]["repos"][k], only_repos)}} :
                    i \in {k \in 1..Len(people) : Refreshable(people[k], include_confirmed)}}

\* (owner, repo) tuples in the order of sorted()
KeyLess(a, b) == StrLess(a[1], b[1]) \/ (a[1] = b[1] /\ StrLess(a[2], b[2]))

RECURSIVE SortedKeys(_)
SortedKeys(keys) ==
    IF keys = {} THEN <<>>
    ELSE LET least == CHOOSE k \in keys : \A q \in keys : ~KeyLess(q, k)
         IN  <<least>> \o SortedKeys(keys \ {least})

\* repo_keys of main: sorted, cut to --limit when it is positive
repo_keys(team, only_repos, include_confirmed, limit) ==
    LET all == SortedKeys(by_repo_keys(team, only_repos, include_confirmed))
    IN  IF limit > 0 /\ limit < Len(all) THEN SubSeq(all, 1, limit) ELSE all

\* role_map.get(username): the last member of the response with that username, None when there is none
RoleMapGet(ms, username) ==
    LET Named(i) == isinstance_str(Get(ms[i], "username", None)) /\ strip(Get(ms[i], "username", None)) # <<>> /\ strip(ms[i]["username"]) = username
    IN  IF \E i \in 1..Len(ms) : Named(i)
        THEN ms[CHOOSE i \in 1..Len(ms) : Named(i) /\ \A j \in (i + 1)..Len(ms) : ~Named(j)]
        ELSE EmptyDict

\* the assignments to repo_ref from the member m
RefreshEntry(r, m) ==
    LET perm_obj == IF Get(m, "permissions", "null") = "null" THEN "{}" ELSE m["permissions"]
        r1 == [x \in (DOMAIN r) \cup {"permission", "roleName", "roleNameCn", "accessLevel", "permissions"} |->
                 CASE x = "permission" -> StrField(m, "permission")
                   [] x = "roleName" -> StrField(m, "role_name")
                   [] x = "roleNameCn" -> StrField(m, "role_name_cn")
                   [] x = "accessLevel" -> Get(m, "access_level", "null")
                   [] x = "permissions" -> (IF perm_obj # "{}" THEN perm_obj ELSE Get(r, "permissions", "{}"))
                   [] OTHER -> r[x]]
    IN  IF "notes" \in DOMAIN r1 /\ startswith(r1["notes"], <<"e", "r", "r", "o", "r", ":">>) THEN Put(r1, "notes", <<>>) ELSE r1

\* the person p after the loop over by_repo[key] for the response ms
RefreshPerson(p, key, ms, only_repos, include_confirmed) ==
    IF ~Refreshable(p, include_confirmed) THEN p
    ELSE LET m == RoleMapGet(ms, strip(p["username"]))
             Upd(r) == IF EntrySelected(r, only_repos) /\ KeyOf(r) = key /\ m # EmptyDict THEN RefreshEntry(r, m) ELSE r
         IN  Put(p, "repos", [j \in 1..Len(p["repos"]) |-> Upd(p["repos"][j])])

\* team after the try block of main for repository key with response ms
RefreshRepo(team, key, ms, only_repos, include_confirmed) ==
    LET F(p) == RefreshPerson(p, key, ms, only_repos, include_confirmed)
    IN  Put(team, "people", [i \in 1..Len(team["people"]) |-> F(team["people"][i])])

(***************************************************************************)
(* Inputs: repository targets, server responses, prior rosters, arguments  *)
(***************************************************************************)
S_cangjie == <<"c", "a", "n", "g", "j", "i", "e">>
S_r1 == <<"r", "1">>
S_r2 == <<"r", "2">>
S_push == <<"p", "u", "s", "h">>
S_pull == <<"p", "u", "l", "l">>
S_Committer_sp == <<"C", "o", "m", "m", "i", "t", "t", "e", "r", " ">>
S_bob_corp == <<"B", ".", "o", "b", "2", "@", "H", "-", "P", "a", "r", "t", "n", "e", "r", "s", ".", "c", "o", "m">>
S_error_note == <<"e", "r", "r", "o", "r", ":", " ", "4", "0", "4">>
S_lead == <<"l", "e", "a", "d">>
S_ext == <<"e", "x", "t">>
S_core == <<"c", "o", "r", "e">>
S_token == <<"t", "o", "k">>
S_101 == <<"1", "0", "1">>
S_102 == <<"1", "0", "2">>
S_7 == <<"7">>

K1 == <<S_cangjie, S_r1>>
K2 == <<S_cangjie, S_r2>>

\* raw members of a collaborators response
M_alice_committer == [username |-> S_alice, id |-> S_101, email |-> S_corp_email, permission |-> S_push, role_name |-> <<>>, role_name_cn |-> S_committer_cn, access_level |-> "40", permissions |-> "{push}"]
M_alice_developer == [username |-> <<" ">> \o S_alice, id |-> S_101, name |-> S_AliceZhang, email |-> None, permission |-> S_pull, role_name |-> S_developer, role_name_cn |-> S_developer_cn, access_level |-> "30", permissions |-> "null"]
M_bob_role_name == [username |-> S_bob, id |-> None, email |-> S_other_email, permission |-> None, role_name |-> S_Committer_sp, role_name_cn |-> None, access_level |-> "null", permissions |-> "{}"]
M_blank == [username |-> S_blank, id |-> S_7, email |-> None, permission |-> S_pull, role_name |-> S_developer, role_name_cn |-> S_developer_cn, access_level |-> "30", permissions |-> "{}"]

\* a member whose username differs from bob's by case only
M_Bob_developer == [username |-> <<"B", "o", "b">>, id |-> S_102, email |-> None, permission |-> S_pull, role_name |-> S_developer, role_name_cn |-> S_developer_cn, access_level |-> "30", permissions |-> "{}"]

RawMembers == {M_alice_committer, M_alice_developer, M_bob_role_name, M_blank}

MemberLists == UNION {[1..n -> RawMembers] : n \in 0..MaxMembers} \cup {<<M_Bob_developer>>, <<M_alice_committer, M_Bob_developer>>}

\* results of try_lookup_email
Lookups == {None, S_corp_email}

\* repos entries of a prior roster
EntryCommitter(key) == [owner |-> key[1], repo |-> key[2], permission |-> S_push, roleName |-> <<>>, roleNameCn |-> S_committer_cn, accessLevel |-> "40", permissions |-> "{push}"]
EntryDeveloper(key) == [owner |-> key[1], repo |-> key[2], permission |-> S_pull, roleName |-> S_developer, roleNameCn |-> S_developer_cn, accessLevel |-> "30", permissions |-> "{}"]
EntryFailed(key) == [owner |-> key[1], repo |-> key[2], permission |-> <<>>, roleName |-> <<>>, roleNameCn |-> <<>>, accessLevel |-> "null", permissions |-> "{pull}", notes |-> S_error_note]

\* persons of a prior roster
P_alice_curated == [username |-> S_alice, gitcodeId |-> S_101, realName |-> S_AliceZhang, email |-> S_corp_email, isConfirmed |-> TRUE, isCommitter |-> FALSE, isLeader |-> TRUE, notes |-> S_lead, groups |-> <<"teamA", "teamB">>, repos |-> <<EntryCommitter(K1)>>, team |-> S_core, isCommitterManual |-> TRUE]
P_alice_placeholder == [username |-> S_alice, gitcodeId |-> S_7, realName |-> S_alice, email |-> S_corp_email, isConfirmed |-> FALSE, isCommitter |-> TRUE, isLeader |-> FALSE, notes |-> <<>>, groups |-> <<"teamA">>, repos |-> <<EntryFailed(K1), EntryDeveloper(K2)>>, isCommitterAuto |-> TRUE]
P_alice_sparse == [username |-> S_alice, realName |-> S_blank, isCommitter |-> TRUE, repos |-> <<EntryCommitter(K2)>>]
P_bob_plain == [username |-> S_bob, gitcodeId |-> S_102, realName |-> <<>>, email |-> S_other_email, isConfirmed |-> FALSE, isCommitter |-> FALSE, isLeader |-> FALSE, notes |-> S_ext, groups |-> <<>>, repos |-> <<EntryDeveloper(K2)>>]
P_bob_confirmed == [username |-> S_bob, gitcodeId |-> S_102, realName |-> S_bob, email |-> S_bob_corp, isConfirmed |-> TRUE, isCommitter |-> TRUE, isLeader |-> FALSE, notes |-> <<>>, groups |-> <<"teamB">>, repos |-> <<EntryCommitter(K1)>>, team |-> S_core]

PeopleLists == {a \o b : a \in {<<>>, <<P_alice_curated>>, <<P_alice_placeholder>>, <<P_alice_sparse>>}, b \in {<<>>, <<P_bob_plain>>, <<P_bob_confirmed>>}}

\* roster documents: current shape, and the older shape with the top-level team and no updatedAt
DocCurrent(people) == [schemaVersion |-> "team.v1", updatedAt |-> 0, sources |-> <<>>, groups |-> <<"teamA", "teamB">>, people |-> people]
DocLegacy(people) == [schemaVersion |-> "team.v1", team |-> S_core, sources |-> <<>>, groups |-> <<>>, people |-> people]
DocNoPeople == [schemaVersion |-> "team.v1", updatedAt |-> 0, team |-> S_core]
DocPeopleNotList == [schemaVersion |-> "team.v1", updatedAt |-> 0, people |-> NotAList]

Rosters == {DocCurrent(ps) : ps \in PeopleLists} \cup {DocLegacy(ps) : ps \in PeopleLists}

Disks == Rosters \cup {DocNoPeople, DocPeopleNotList, JsonArray}

\* rosters an ingestion or role refresh run is started on
RunDisks == {DocCurrent(ps) : ps \in {<<>>, <<P_alice_curated, P_bob_plain>>, <<P_alice_placeholder>>, <<P_alice_sparse, P_bob_confirmed>>}} \cup {DocLegacy(<<P_alice_placeholder, P_bob_confirmed>>), DocNoPeople, DocPeopleNotList, JsonArray}

Tools == {"collect_gitcode_members", "refresh_member_roles", "migrate_remove_committer_auto", "migrate_team_to_groups_only", "refresh_realname_from_email"}

NoArgs == [continue_on_error |-> FALSE, merge_existing |-> FALSE, email_lookup |-> FALSE, token |-> S_token, typed_token |-> <<>>, repos |-> <<>>, include_confirmed |-> FALSE, limit |-> 0, default_team |-> <<>>, per_page |-> PerPage]

CollectArgs ==
    {[NoArgs EXCEPT !.repos = <<K1, K2, K1>>, !.continue_on_error = c, !.merge_existing = m] : c \in BOOLEAN, m \in BOOLEAN}
    \cup {[NoArgs EXCEPT !.repos = <<K1, K2>>, !.continue_on_error = TRUE, !.merge_existing = TRUE, !.email_lookup = TRUE],
          [NoArgs EXCEPT !.repos = <<K2>>, !.token = S_blank, !.typed_token = S_token, !.merge_existing = TRUE],
          [NoArgs EXCEPT !.repos = <<K1>>, !.token = <<>>, !.typed_token = S_blank, !.merge_existing = TRUE],
          [NoArgs EXCEPT !.merge_existing = TRUE]}

RefreshArgs ==
    {[NoArgs EXCEPT !.continue_on_error = c, !.include_confirmed = i] : c \in BOOLEAN, i \in BOOLEAN}
    \cup {[NoArgs EXCEPT !.repos = <<K2>>, !.continue_on_error = TRUE],
          [NoArgs EXCEPT !.limit = 1],
          [NoArgs EXCEPT !.token = <<>>, !.typed_token = <<>>]}

MigrateArgs == {NoArgs, [NoArgs EXCEPT !.default_team = S_core]}

(***************************************************************************)
(* State                                                                   *)
(***************************************************************************)
VARIABLES
    tool,                \* the script that runs
    args,                \* its parsed arguments
    disk,                \* the roster file
    now,                 \* the clock utc_now_iso reads
    pc,                  \* position in main
    exit,                \* how the run ended
    repos,               \* collect: repos; refresh: repo_keys
    idx,                 \* index of the repository the loop is at
    members,             \* collect: members of the current repository
    mi,                  \* collect: index of the member the loop is at
    existing,            \* collect: existing
    people_by_username,  \* collect: people_by_username
    sources,             \* collect: sources
    team,                \* refresh: team
    page,                \* fetch_collaborators: page
    pages_fetched,       \* fetch_collaborators of collect: pages_fetched
    all_items            \* fetch_collaborators: all_items

vars == <<tool, args, disk, now, pc, exit, repos, idx, members, mi, existing, people_by_username, sources, team, page, pages_fetched, all_items>>

locals == <<repos, idx, members, mi, existing, people_by_username, sources, team>>

Init ==
    /\ tool \in Tools
    /\ \/ tool = "collect_gitcode_members" /\ args \in CollectArgs /\ disk \in RunDisks
       \/ tool = "refresh_member_roles" /\ args \in RefreshArgs /\ disk \in RunDisks
       \/ tool = "migrate_remove_committer_auto" /\ args = NoArgs /\ disk \in Disks
       \/ tool = "migrate_team_to_groups_only" /\ args = NoArgs /\ disk \in Disks
       \/ tool = "refresh_realname_from_email" /\ args \in MigrateArgs /\ disk \in Disks
    /\ now = 1
    /\ pc = "start"
    /\ exit = "running"
    /\ repos = <<>>
    /\ idx = 0
    /\ members = <<>>
    /\ mi = 0
    /\ existing = EmptyDict
    /\ people_by_username = EmptyDict
    /\ sources = <<>>
    /\ team = EmptyDict
    /\ page = 1
    /\ pages_fetched = 0
    /\ all_items = <<>>

\* the run ends with exit status e
Exit(e) == pc' = "done" /\ exit' = e

\* token = args.token.strip(), or what getpass returns, stripped
Token == IF strip(args.token) # <<>> THEN strip(args.token) ELSE strip(args.typed_token)

(***************************************************************************)
(* collect_gitcode_members.py main                                         *)
(***************************************************************************)
CollectStart ==
    /\ tool = "collect_gitcode_members" /\ pc = "start"
    /\ IF unique_repos(args.repos) = <<>> THEN Exit("2") /\ UNCHANGED locals
       ELSE IF Token = <<>> THEN Exit("2") /\ UNCHANGED locals
       ELSE IF args.merge_existing /\ ~isinstance_dict(disk) THEN Exit("AttributeError") /\ UNCHANGED locals
       ELSE /\ repos' = unique_repos(args.repos)
            /\ existing' = IF args.merge_existing THEN disk ELSE EmptyDict
            /\ idx' = 1
            /\ pc' = "collect_repo"
            /\ UNCHANGED <<exit, members, mi, people_by_username, sources, team>>
    /\ UNCHANGED <<tool, args, page, pages_fetched, all_items, disk, now>>

\* fetch_collaborators returns the members ms
CollectFetchOk ==
    /\ pc = "collect_repo" /\ idx <= Len(repos)
    /\ \E ms \in MemberLists :
         /\ sources' = Append(sources, SourceOk(repos[idx], now, ms))
         /\ members' = ms
         /\ IF ms = <<>> THEN idx' = idx + 1 /\ mi' = mi /\ pc' = pc
            ELSE idx' = idx /\ mi' = 1 /\ pc' = "collect_members"
    /\ now' = now + 1
    /\ UNCHANGED <<tool, args, page, pages_fetched, all_items, disk, exit, repos, existing, people_by_username, team>>

\* CollectFetchRuntimeError that writes what was accumulated before it re-raises
CollectFetchRuntimeError_writes ==
    /\ pc = "collect_repo" /\ idx <= Len(repos)
    /\ sources' = Append(sources, SourceError(repos[idx], now))
    /\ now' = now + 1
    /\ IF args.continue_on_error THEN idx' = idx + 1 /\ UNCHANGED <<pc, exit, disk>>
       ELSE Exit("RuntimeError") /\ idx' = idx /\ disk' = OutObj(existing, sources', people_by_username, now)
    /\ UNCHANGED <<tool, args, page, pages_fetched, all_items, repos, members, mi, existing, people_by_username, team>>

\* CollectFetchRuntimeError that drops what was accumulated from the repositories before
CollectFetchRuntimeError_rollback ==
    /\ pc = "collect_repo" /\ idx <= Len(repos)
    /\ sources' = Append(sources, SourceError(repos[idx], now))
    /\ now' = now + 1
    /\ people_by_username' = EmptyDict
    /\ IF args.continue_on_error THEN idx' = idx + 1 /\ UNCHANGED <<pc, exit>>
       ELSE Exit("RuntimeError") /\ idx' = idx
    /\ UNCHANGED <<tool, args, page, pages_fetched, all_items, disk, repos, members, mi, existing, team>>

\* fetch_collaborators raises RuntimeError: HTTP error, network error, response not a list, too many pages
CollectFetchRuntimeError ==
    /\ pc = "collect_repo" /\ idx <= Len(repos)
    /\ sources' = Append(sources, SourceError(repos[idx], now))
    /\ now' = now + 1
    /\ IF args.continue_on_error THEN idx' = idx + 1 /\ UNCHANGED <<pc, exit>>
       ELSE Exit("RuntimeError") /\ idx' = idx
    /\ UNCHANGED <<tool, args, page, pages_fetched, all_items, disk, repos, members, mi, existing, people_by_username, team>>

\* http_get_json raises ValueError (the body is not JSON): no except clause of main or fetch_collaborators matches
CollectFetchValueError ==
    /\ pc = "collect_repo" /\ idx <= Len(repos)
    /\ Exit("ValueError")
    /\ UNCHANGED <<tool, args, page, pages_fetched, all_items, disk, now, locals>>

\* one iteration of the loop over members
CollectMember ==
    /\ pc = "collect_members" /\ mi <= Len(members)
    /\ \E looked \in Lookups :
         people_by_username' = FoldMember(people_by_username, index_people(existing), members[mi], repos[idx][1], repos[idx][2], args.email_lookup, looked)
    /\ IF mi = Len(members) THEN idx' = idx + 1 /\ pc' = "collect_repo" /\ mi' = mi
       ELSE mi' = mi + 1 /\ UNCHANGED <<idx, pc>>
    /\ UNCHANGED <<tool, args, page, pages_fetched, all_items, disk, now, exit, repos, members, existing, sources, team>>

\* after the loop over repos: out_obj is written to --out
CollectWrite ==
    /\ pc = "collect_repo" /\ idx > Len(repos)
    /\ disk' = OutObj(existing, sources, people_by_username, now)
    /\ now' = now + 1
    /\ Exit("0")
    /\ UNCHANGED <<tool, args, page, pages_fetched, all_items, locals>>

(***************************************************************************)
(* refresh_member_roles.py main                                            *)
(***************************************************************************)
RefreshStart ==
    /\ tool = "refresh_member_roles" /\ pc = "start"
    /\ IF Token = <<>> THEN Exit("SystemExit") /\ UNCHANGED locals
       ELSE IF ~isinstance_dict(disk) THEN Exit("SystemExit") /\ UNCHANGED locals
       ELSE /\ team' = disk
            /\ repos' = repo_keys(disk, Range(args.repos), args.include_confirmed, args.limit)
            /\ idx' = 1
            /\ pc' = "refresh_repo"
            /\ UNCHANGED <<exit, members, mi, existing, people_by_username, sources>>
    /\ UNCHANGED <<tool, args, page, pages_fetched, all_items, disk, now>>

\* fetch_collaborators returns the members ms
RefreshFetchOk ==
    /\ pc = "refresh_repo" /\ idx <= Len(repos)
    /\ \E ms \in MemberLists : team' = RefreshRepo(team, repos[idx], ms, Range(args.repos), args.include_confirmed)
    /\ idx' = idx + 1
    /\ UNCHANGED <<tool, args, page, pages_fetched, all_items, disk, now, pc, exit, repos, members, mi, existing, people_by_username, sources>>

\* fetch_collaborators raises (RuntimeError, or the JSONDecodeError of http_get_json): except Exception
RefreshFetchError ==
    /\ pc = "refresh_repo" /\ idx <= Len(repos)
    /\ \E e \in {"RuntimeError", "ValueError"} :
         IF args.continue_on_error THEN idx' = idx + 1 /\ UNCHANGED <<pc, exit>>
         ELSE Exit(e) /\ idx' = idx
    /\ UNCHANGED <<tool, args, page, pages_fetched, all_items, disk, now, repos, members, mi, existing, people_by_username, sources, team>>

\* after the loop: updatedAt, recompute_committers, json.dump to --out
RefreshWrite ==
    /\ pc = "refresh_repo" /\ idx > Len(repos)
    /\ disk' = recompute_committers(Put(team, "updatedAt", now))
    /\ team' = disk'
    /\ now' = now + 1
    /\ Exit("0")
    /\ UNCHANGED <<tool, args, page, pages_fetched, all_items, repos, idx, members, mi, existing, people_by_username, sources>>

(***************************************************************************)
(* main of the migration steps                                             *)
(***************************************************************************)
MigrateRemoveCommitterAuto ==
    /\ tool = "migrate_remove_committer_auto" /\ pc = "start"
    /\ IF ~isinstance_dict(disk) THEN Exit("SystemExit") /\ UNCHANGED <<disk, now>>
       ELSE disk' = process_remove_committer_auto(disk, now) /\ now' = now + 1 /\ Exit("0")
    /\ UNCHANGED <<tool, args, page, pages_fetched, all_items, locals>>

\* MigrateTeamToGroupsOnly without the test that the document is an object
MigrateTeamToGroupsOnly_nocheck ==
    /\ tool = "migrate_team_to_groups_only" /\ pc = "start"
    /\ disk' = process_team_to_groups_only(disk, now) /\ now' = now + 1 /\ Exit("0")
    /\ UNCHANGED <<tool, args, page, pages_fetched, all_items, locals>>

MigrateTeamToGroupsOnly ==
    /\ tool = "migrate_team_to_groups_only" /\ pc = "start"
    /\ IF ~isinstance_dict(disk) THEN Exit("SystemExit") /\ UNCHANGED <<disk, now>>
       ELSE disk' = process_team_to_groups_only(disk, now) /\ now' = now + 1 /\ Exit("0")
    /\ UNCHANGED <<tool, args, page, pages_fetched, all_items, locals>>

RefreshRealnameFromEmail ==
    /\ tool = "refresh_realname_from_email" /\ pc = "start"
    /\ IF ~isinstance_dict(disk) THEN Exit("SystemExit") /\ UNCHANGED <<disk, now>>
       ELSE disk' = process_realname_from_email(disk, args.default_team, now) /\ now' = now + 1 /\ Exit("0")
    /\ UNCHANGED <<tool, args, page, pages_fetched, all_items, locals>>

Next ==
    \/ CollectStart
    \/ CollectFetchOk
    \/ CollectFetchRuntimeError
    \/ CollectFetchValueError
    \/ CollectMember
    \/ CollectWrite
    \/ RefreshStart
    \/ RefreshFetchOk
    \/ RefreshFetchError
    \/ RefreshWrite
    \/ MigrateRemoveCommitterAuto
    \/ MigrateTeamToGroupsOnly
    \/ RefreshRealnameFromEmail

Spec == Init /\ [][Next]_vars

(***************************************************************************)
(* fetch_collaborators, page by page                                       *)
(***************************************************************************)
\* the safety guard of both fetchers
MaxPages == 200

\* per_page of the call in main of refresh_member_roles.py
RefreshPerPage == 100

\* per_page of the running fetcher
per_page == IF tool = "collect_gitcode_members" THEN args.per_page ELSE RefreshPerPage

\* a response of n collaborators
PageOf(n) == [i \in 1..n |-> [username |-> S_bob]]

\* the responses with fewer than per_page entries
ShortPages == {PageOf(0)} \cup {PageOf(per_page - 1)}

\* values of --per-page
PerPages == {1, 2, PerPage}

InitFetch ==
    /\ tool \in {"collect_gitcode_members", "refresh_member_roles"}
    /\ \/ tool = "collect_gitcode_members" /\ \E n \in PerPages : args = [NoArgs EXCEPT !.repos = <<K1>>, !.per_page = n]
       \/ tool = "refresh_member_roles" /\ args = NoArgs
    /\ disk = DocCurrent(<<>>)
    /\ now = 1
    /\ pc = "fetch_request"
    /\ exit = "running"
    /\ repos = <<K1>>
    /\ idx = 1
    /\ members = <<>>
    /\ mi = 0
    /\ existing = EmptyDict
    /\ people_by_username = EmptyDict
    /\ sources = <<>>
    /\ team = EmptyDict
    /\ page = 1
    /\ pages_fetched = 0
    /\ all_items = <<>>

\* http_get_json(url) is called for the page
FetchRequest ==
    /\ pc = "fetch_request"
    /\ pc' = "fetch_response"
    /\ UNCHANGED <<tool, args, disk, now, exit, locals, page, pages_fetched, all_items>>

\* the response is a list of per_page entries: the loop goes on, unless the safety guard raises
FetchFullPage ==
    /\ pc = "fetch_response"
    /\ all_items' = all_items \o PageOf(per_page)
    /\ page' = page + 1
    /\ IF tool = "collect_gitcode_members"
       THEN /\ pages_fetched' = pages_fetched + 1
            /\ IF pages_fetched' > MaxPages THEN Exit("RuntimeError") ELSE pc' = "fetch_request" /\ exit' = exit
       ELSE /\ pages_fetched' = pages_fetched
            /\ IF page' > MaxPages THEN Exit("RuntimeError") ELSE pc' = "fetch_request" /\ exit' = exit
    /\ UNCHANGED <<tool, args, disk, now, locals>>

\* the response is a list of fewer than per_page entries: break, and the members are returned
FetchShortPage ==
    /\ pc = "fetch_response"
    /\ \E data \in ShortPages : all_items' = all_items \o data
    /\ pages_fetched' = IF tool = "collect_gitcode_members" THEN pages_fetched + 1 ELSE pages_fetched
    /\ members' = all_items'
    /\ Exit("returned")
    /\ UNCHANGED <<tool, args, disk, now, repos, idx, mi, existing, people_by_username, sources, team, page>>

\* HTTPError, URLError or a response that is not a list raise RuntimeError; a body that is not JSON raises ValueError
FetchError ==
    /\ pc = "fetch_response"
    /\ \E e \in {"RuntimeError", "ValueError"} : Exit(e)
    /\ UNCHANGED <<tool, args, disk, now, locals, page, pages_fetched, all_items>>

NextFetch ==
    \/ FetchRequest
    \/ FetchFullPage
    \/ FetchShortPage
    \/ FetchError

SpecFetch == InitFetch /\ [][NextFetch]_vars

(***************************************************************************)
(* The role classifier on a range of role names                            *)
(***************************************************************************)
S_committer_cn_uc == <<"U4ED3", "U9889", "C", "O", "M", "M", "I", "T", "T", "E", "R">>
S_committer_cn_mixed == <<"U4ED3", "U9889", "c", "o", "m", "m", "i", "t", "t", "e", "R">>
S_committer_cn_padded == <<" ", "U4ED3", "U9889", " ", "C", "o", "m", "m", "i", "t", "t", "e", "r", "\t">>
S_committer_cn_lc_padded == <<"U4ED3", "\t", "U9889", "c", "o", "m", "m", "i", "t", "t", "e", "r", " ">>
S_committer_cn_plural == <<"U4ED3", "U9889", "C", "o", "m", "m", "i", "t", "t", "e", "r", "s">>
S_COMMITTER == <<"C", "O", "M", "M", "I", "T", "T", "E", "R">>
S_sig_committer == <<"s", "i", "g", ":", "c", "o", "m", "m", "i", "t", "t", "e", "r">>
S_committers_padded == <<"\t", "C", "o", "m", "m", "i", "t", "t", "e", "r", "s", " ">>
S_commit == <<"c", "o", "m", "m", "i", "t">>
S_commit_ter == <<"c", "o", "m", "m", "i", "t", " ", "t", "e", "r">>

\* values of roleNameCn: not a string, empty, blank, the marker in several spellings, other names
RoleNamesCn == {None, <<>>, S_blank, S_committer_cn, S_committer_cn_lc, S_committer_cn_uc, S_committer_cn_mixed, S_committer_cn_padded, S_committer_cn_lc_padded, S_committer_cn_plural, S_developer_cn, S_committer}

\* values of roleName
RoleNames == {None, <<>>, S_blank, S_committer, S_Committer_sp, S_COMMITTER, S_sig_committer, S_committers_padded, S_commit, S_commit_ter, S_developer}

\* a roster of one Person with one repos entry carrying the role names
RoleRoster(cn, rn, stored) == DocCurrent(<<[username |-> S_alice, isCommitter |-> stored, repos |-> <<[owner |-> S_cangjie, repo |-> S_r1, roleNameCn |-> cn, roleName |-> rn]>>]>>)

\* the local state of a script before main runs
BeforeMain ==
    /\ now = 1
    /\ pc = "start"
    /\ exit = "running"
    /\ repos = <<>>
    /\ idx = 0
    /\ members = <<>>
    /\ mi = 0
    /\ existing = EmptyDict
    /\ people_by_username = EmptyDict
    /\ sources = <<>>
    /\ team = EmptyDict
    /\ page = 1
    /\ pages_fetched = 0
    /\ all_items = <<>>

InitRole ==
    /\ tool = "migrate_remove_committer_auto"
    /\ args = NoArgs
    /\ \E cn \in RoleNamesCn, rn \in RoleNames, stored \in BOOLEAN : disk = RoleRoster(cn, rn, stored)
    /\ BeforeMain

NextRole == MigrateRemoveCommitterAuto

SpecRole == InitRole /\ [][NextRole]_vars

(***************************************************************************)
(* The email-derivation step on a range of emails and names                *)
(***************************************************************************)
S_corp_email_uc == <<"Z", "H", "A", "N", "G", ".", "S", "A", "N", "3", "@", "H", "U", "A", "W", "E", "I", ".", "C", "O", "M">>
S_corp_email_padded == <<" ">> \o S_corp_email \o <<" ">>
S_corp_email_no_tld == <<"l", "i", "_", "4", "@", "h", "u", "a", "w", "e", "i">>
S_corp_email_cn == <<"w", "a", "n", "g", "-", "w", "u", "@", "h", "-", "p", "a", "r", "t", "n", "e", "r", "s", ".", "c", "o", "m", ".", "c", "n">>
S_digits_email == <<"1", "2", "3", "@", "h", "u", "a", "w", "e", "i", ".", "c", "o", "m">>
S_no_local_email == <<"@", "h", "u", "a", "w", "e", "i", ".", "c", "o", "m">>
S_two_at_email == <<"l", "i", "@", "x", "@", "h", "u", "a", "w", "e", "i", ".", "c", "o", "m">>
S_relay_email == <<"l", "i", "@", "h", "u", "a", "w", "e", "i", ".", "c", "o", "m", "@", "x", ".", "i", "o">>
S_lookalike_email == <<"l", "i", "@", "h", "u", "a", "w", "e", "i", "x", ".", "c", "o", "m">>
S_no_at_email == <<"h", "u", "a", "w", "e", "i", ".", "c", "o", "m">>
S_alice_padded == S_alice \o <<" ">>
S_sp_alice == <<" ">> \o S_alice

\* values of email: not a string, empty, corporate addresses in several shapes, other addresses
Emails == {None, <<>>, S_corp_email, S_corp_email_uc, S_corp_email_padded, S_corp_email_no_tld, S_corp_email_cn, S_bob_corp, S_digits_email, S_no_local_email, S_two_at_email, S_relay_email, S_lookalike_email, S_no_at_email, S_other_email}

\* values of realName (<<"<absent>">> stands for a Person without the key)
RealNames == {<<"<absent>">>, None, <<>>, S_blank, S_alice, S_alice_padded, S_AliceZhang}

UsernamesStored == {S_alice, S_sp_alice, S_bob}

\* a roster of one Person with the username, the email and, unless absent, the realName
RealnameRoster(username, real_name, email) ==
    LET p == [username |-> username, email |-> email, isCommitter |-> FALSE, repos |-> <<>>]
    IN  DocCurrent(<<IF real_name = <<"<absent>">> THEN p ELSE Put(p, "realName", real_name)>>)

InitRealname ==
    /\ tool = "refresh_realname_from_email"
    /\ args \in MigrateArgs
    /\ \E u \in UsernamesStored, rn \in RealNames, e \in Emails : disk = RealnameRoster(u, rn, e)
    /\ BeforeMain

NextRealname == RefreshRealnameFromEmail

SpecRealname == InitRealname /\ [][NextRealname]_vars

(***************************************************************************)
(* The collapse-membership migration on a range of groups lists            *)
(***************************************************************************)
\* the longest groups list of a Person
MaxGroups == 3

GroupNames == {"teamA", "teamB", "teamC"}

GroupLists == UNION {[1..n -> GroupNames] : n \in 0..MaxGroups}

\* a Person with the groups list; has_groups and has_team say which of the two keys it has
GroupsPerson(groups, has_groups, has_team) ==
    LET p0 == [username |-> S_bob, isCommitter |-> FALSE, notes |-> S_ext, repos |-> <<EntryDeveloper(K2)>>]
        p1 == IF has_groups THEN Put(p0, "groups", groups) ELSE p0
    IN  IF has_team THEN Put(p1, "team", S_core) ELSE p1

InitGroups ==
    /\ tool = "migrate_team_to_groups_only"
    /\ args = NoArgs
    /\ \E g \in GroupLists, has_groups \in BOOLEAN, has_team \in BOOLEAN, legacy \in BOOLEAN :
         /\ ~has_groups => g = <<>>
         /\ disk = IF legacy THEN DocLegacy(<<GroupsPerson(g, has_groups, has_team), P_alice_curated>>)
                   ELSE DocCurrent(<<GroupsPerson(g, has_groups, has_team), P_alice_curated>>)
    /\ BeforeMain

NextGroups == MigrateTeamToGroupsOnly

SpecGroups == InitGroups /\ [][NextGroups]_vars

(***************************************************************************)
(* Properties                                                              *)
(***************************************************************************)
\* the people list of a document, empty when the document has none
PeopleOf(d) == IF isinstance_dict(d) /\ isinstance_list(GetPeople(d)) THEN d["people"] ELSE <<>>

MigrationTools == {"migrate_remove_committer_auto", "migrate_team_to_groups_only", "refresh_realname_from_email"}

CommitterOK(p) == "isCommitter" \in DOMAIN p /\ p["isCommitter"] = AnyCommitter(ReposOf(p))

AccumulatedOK == \A u \in DOMAIN people_by_username : CommitterOK(people_by_username[u])

WrittenOK == \A i \in 1..Len(PeopleOf(disk)) : CommitterOK(PeopleOf(disk)[i])

C1_Established == AccumulatedOK /\ ((exit = "0" /\ tool \in {"collect_gitcode_members", "refresh_member_roles", "migrate_remove_committer_auto"}) => WrittenOK)

C1_Kept ==
    (tool \in {"migrate_team_to_groups_only", "refresh_realname_from_email"} /\ pc = "start")
    => /\ Len(PeopleOf(disk')) = Len(PeopleOf(disk))
       /\ \A i \in 1..Len(PeopleOf(disk)) :
            /\ ("isCommitter" \in DOMAIN PeopleOf(disk')[i]) = ("isCommitter" \in DOMAIN PeopleOf(disk)[i])
            /\ Get(PeopleOf(disk')[i], "isCommitter", FALSE) = Get(PeopleOf(disk)[i], "isCommitter", FALSE)
            /\ ReposOf(PeopleOf(disk')[i]) = ReposOf(PeopleOf(disk)[i])

Usernames(people) == {strip(people[i]["username"]) : i \in 1..Len(people)}

\* C2 as stated: an ingestion run with --merge-existing writes every Person of the prior roster,
\* also one that no fetched repository returned.
C2_NeverDeleted ==
    (tool = "collect_gitcode_members" /\ args.merge_existing /\ exit = "0")
    => Usernames(PeopleOf(existing)) \subseteq Usernames(PeopleOf(disk))

NonBlank(p, f) == isinstance_str(Get(p, f, None)) /\ strip(Get(p, f, None)) # <<>>

\* the stored record p and the written record q are records of the same username
SameUser(p, q) == strip(p["username"]) = strip(q["username"])

\* a step of an automated pass that writes the roster: ingestion with --merge-existing, role refresh, migration steps
WritingPass == disk' # disk /\ ~(tool = "collect_gitcode_members" /\ ~args.merge_existing)

KeptAsStated(p, q) ==
    /\ \A f \in {"notes", "groups"} : (f \in DOMAIN p /\ p[f] # <<>>) => (f \in DOMAIN q /\ q[f] = p[f])
    /\ \A f \in {"isLeader", "isConfirmed"} : (f \in DOMAIN p /\ p[f] # FALSE) => (f \in DOMAIN q /\ q[f] = p[f])
    /\ \A f \in {"realName", "email"} : (f \in DOMAIN p /\ p[f] # <<>>) => (f \in DOMAIN q /\ q[f] = p[f])

\* C3 as stated: notes, isLeader, groups and isConfirmed once non-default, and realName and email once
\* non-empty, are never cleared or replaced by an automated pass.
C3_Original == [][WritingPass => \A i \in 1..Len(PeopleOf(disk)) : \A j \in 1..Len(PeopleOf(disk')) : SameUser(PeopleOf(disk)[i], PeopleOf(disk')[j]) => KeptAsStated(PeopleOf(disk)[i], PeopleOf(disk')[j])]_vars

Kept(p, q) ==
    /\ \A f \in {"notes", "isLeader", "isConfirmed"} : f \in DOMAIN p => (f \in DOMAIN q /\ q[f] = p[f])
    /\ "groups" \in DOMAIN p =>
         /\ "groups" \in DOMAIN q
         /\ \/ q["groups"] = p["groups"]
            \/ tool = "migrate_team_to_groups_only" /\ Len(p["groups"]) > 1 /\ q["groups"] = <<p["groups"][1]>>
    /\ NonBlank(p, "email") => Get(q, "email", None) = p["email"]
    /\ NonBlank(p, "realName") =>
         \/ Get(q, "realName", None) = p["realName"]
         \/ /\ tool = "refresh_realname_from_email"
            /\ strip(p["realName"]) = strip(p["username"])
            /\ derive_pinyin_from_email(Get(p, "email", <<>>)) # <<>>
            /\ Get(q, "realName", None) = derive_pinyin_from_email(Get(p, "email", <<>>))

\* C3 amended: for every Person an automated pass (ingestion with --merge-existing, role refresh, migration
\* step) carries from the stored roster to the written one, notes, isLeader and isConfirmed are unchanged,
\* email is unchanged once it is not blank, groups is unchanged except that migrate_team_to_groups_only cuts a
\* list of more than one entry to its first entry, and realName is unchanged once it is not blank except that
\* refresh_realname_from_email replaces a realName equal to the username by the name derived from a
\* corporate email; a realName or email that is empty or blank may be filled.
C3_Amended == [][WritingPass => \A i \in 1..Len(PeopleOf(disk)) : \A j \in 1..Len(PeopleOf(disk')) : SameUser(PeopleOf(disk)[i], PeopleOf(disk')[j]) => Kept(PeopleOf(disk)[i], PeopleOf(disk')[j])]_vars

\* C3 witness: an ingestion run with --merge-existing has written the curated record of alice with a
\* second repos entry appended and its notes, groups, realName and isConfirmed as curated.
C3_Witness ==
    /\ tool = "collect_gitcode_members" /\ args.merge_existing /\ exit = "0"
    /\ \E i \in 1..Len(PeopleOf(disk)) :
         /\ PeopleOf(disk)[i]["notes"] = S_lead /\ PeopleOf(disk)[i]["groups"] = <<"teamA", "teamB">>
         /\ PeopleOf(disk)[i]["realName"] = S_AliceZhang /\ PeopleOf(disk)[i]["isConfirmed"] = TRUE
         /\ Len(PeopleOf(disk)[i]["repos"]) = 2

\* a roster without its timestamp
ModuloTimestamp(d) == Pop(d, "updatedAt")

\* the process function of the migration step that runs
process(obj, t) ==
    CASE tool = "migrate_remove_committer_auto" -> process_remove_committer_auto(obj, t)
      [] tool = "migrate_team_to_groups_only" -> process_team_to_groups_only(obj, t)
      [] tool = "refresh_realname_from_email" -> process_realname_from_email(obj, args.default_team, t)

\* C4: the roster a migration step has produced is, apart from updatedAt, what the step's process
\* function produces from it again.
C4_Idempotent == (tool \in MigrationTools /\ exit = "0") => ModuloTimestamp(process(disk, now)) = ModuloTimestamp(disk)

\* C4 witness: migrate_team_to_groups_only has cut the groups of alice to its first entry and removed team.
C4_Witness ==
    /\ tool = "migrate_team_to_groups_only" /\ exit = "0"
    /\ \E i \in 1..Len(PeopleOf(disk)) : Get(PeopleOf(disk)[i], "notes", <<>>) = S_lead /\ PeopleOf(disk)[i]["groups"] = <<"teamA">> /\ "team" \notin DOMAIN PeopleOf(disk)[i]

\* the raw member the loop over members is at has a username
ValidMember == isinstance_str(Get(members[mi], "username", None)) /\ strip(Get(members[mi], "username", None)) # <<>>

\* the repos entry main builds from the raw member the loop is at
FreshEntry == Incoming(members[mi], repos[idx][1], repos[idx][2], FALSE, None)["repos"][1]

\* the record the Reconciler is given as prior for username u: accumulated in this run, else of the prior roster, else none
PriorRecord(u) ==
    IF u \in DOMAIN people_by_username THEN people_by_username[u]
    ELSE IF u \in DOMAIN index_people(existing) THEN index_people(existing)[u]
    ELSE EmptyDict

RoleFields(r) == <<Get(r, "permission", None), Get(r, "roleName", None), Get(r, "roleNameCn", None), Get(r, "accessLevel", "null"), Get(r, "permissions", "null")>>

\* the entries of a repos list with the key
EntriesAt(rs, key) == {i \in 1..Len(rs) : KeyOf(rs[i]) = key}

\* C5 as stated: in a run that merges a prior roster, after a member of a fetched repository is folded in,
\* the Person's repos entry for that repository carries the role and permission fields of this fetch.
C5_Original ==
    [][(pc = "collect_members" /\ args.merge_existing /\ ValidMember)
       => LET after == people_by_username'[strip(members[mi]["username"])]
          IN  /\ EntriesAt(after["repos"], repos[idx]) # {}
              /\ \A i \in EntriesAt(after["repos"], repos[idx]) : RoleFields(after["repos"][i]) = RoleFields(FreshEntry)
              /\ after["isCommitter"] = AnyCommitter(after["repos"])]_vars

\* C5 amended: after a member of a successfully fetched repository (owner, repo) is folded in, the Person
\* has exactly one repos entry for that key; it carries the role and permission fields of this fetch when
\* the record given to the Reconciler (accumulated in this run, else from the prior roster) had no entry
\* for the key, and otherwise it is that record's entry, unchanged; isCommitter is computed from the
\* resulting repos list.
C5_Amended ==
    [][(pc = "collect_members" /\ args.merge_existing /\ ValidMember)
       => LET u == strip(members[mi]["username"])
              before == ReposOf(PriorRecord(u))
              after == people_by_username'[u]
          IN  /\ Cardinality(EntriesAt(after["repos"], repos[idx])) = 1
              /\ \A i \in EntriesAt(after["repos"], repos[idx]) :
                   IF EntriesAt(before, repos[idx]) = {} THEN after["repos"][i] = FreshEntry
                   ELSE i \in EntriesAt(before, repos[idx]) /\ after["repos"][i] = before[i]
              /\ after["isCommitter"] = AnyCommitter(after["repos"])]_vars

\* C5 witness: alice, stored with the entry of a failed lookup for r1, has been returned by r1 and folded
\* in; her record keeps the stored entry.
C5_Witness ==
    /\ pc = "collect_members" /\ args.merge_existing /\ idx = 1 /\ mi = 2 /\ repos[1] = K1
    /\ members[1]["username"] = S_alice
    /\ S_alice \in DOMAIN people_by_username
    /\ people_by_username[S_alice]["repos"][1] = EntryFailed(K1)

NoDuplicateKeys(p) == \A i, j \in 1..Len(ReposOf(p)) : i # j => KeyOf(ReposOf(p)[i]) # KeyOf(ReposOf(p)[j])

\* C6: no Person, on disk, accumulated by an ingestion run or held by a role refresh run, has two repos
\* entries with the same (owner, repo) key.
C6_NoDuplicateKeys ==
    /\ \A i \in 1..Len(PeopleOf(disk)) : NoDuplicateKeys(PeopleOf(disk)[i])
    /\ \A u \in DOMAIN people_by_username : NoDuplicateKeys(people_by_username[u])
    /\ \A i \in 1..Len(PeopleOf(team)) : NoDuplicateKeys(PeopleOf(team)[i])

\* C6 witness: a run over r1 and r2 (r1 listed twice) has written alice, stored with an entry for r2,
\* with one entry for each of r2 and r1.
C6_Witness ==
    /\ tool = "collect_gitcode_members" /\ exit = "0" /\ args.repos = <<K1, K2, K1>>
    /\ \E i \in 1..Len(PeopleOf(disk)) :
         /\ Len(PeopleOf(disk)[i]["repos"]) = 2
         /\ KeyOf(PeopleOf(disk)[i]["repos"][1]) = K2 /\ KeyOf(PeopleOf(disk)[i]["repos"][2]) = K1
    /\ Len(sources) = 2 /\ sources[2]["memberCount"] > 0

\* C7: when the record accumulated for a username without prior record is the observation itself, folding
\* the same observation in again leaves the record as it is, with one repos entry.
C7_Idempotent ==
    [][(pc = "collect_members" /\ ValidMember)
       => LET u == strip(members[mi]["username"])
          IN  \A looked \in Lookups :
                LET incoming == Incoming(members[mi], repos[idx][1], repos[idx][2], args.email_lookup, looked)
                IN  (/\ u \notin DOMAIN index_people(existing)
                     /\ u \in DOMAIN people_by_username
                     /\ people_by_username[u] = incoming
                     /\ people_by_username' = FoldMember(people_by_username, index_people(existing), members[mi], repos[idx][1], repos[idx][2], args.email_lookup, looked))
                    => (people_by_username'[u] = incoming /\ Len(people_by_username'[u]["repos"]) = 1)]_vars

\* C7 witness: the response listed the same member twice; both have been folded in and the record is
\* the observation, with one entry.
C7_Witness ==
    /\ pc = "collect_repo" /\ idx = 2
    /\ members = <<M_alice_committer, M_alice_committer>>
    /\ S_alice \notin DOMAIN index_people(existing)
    /\ people_by_username[S_alice] = Incoming(M_alice_committer, K1[1], K1[2], FALSE, None)

\* the members folded in so far of the repository the loop is at
FoldedSoFar == IF pc = "collect_members" THEN SubSeq(members, 1, mi - 1) ELSE members

\* C8 as stated: with continue-on-error a fetch that fails does not stop the run; every member with a
\* username of a fetched repository has a Person record, the roster is written with a Source entry for
\* every target, and the entry of a failed fetch has memberCount = 0 and an error note.
C8_ContinueOnError ==
    (tool = "collect_gitcode_members" /\ args.continue_on_error /\ idx >= 1)
    => /\ \A i \in 1..Len(FoldedSoFar) :
            (isinstance_str(FoldedSoFar[i]["username"]) /\ strip(FoldedSoFar[i]["username"]) # <<>>) => strip(FoldedSoFar[i]["username"]) \in DOMAIN people_by_username
       /\ \A i \in 1..Len(sources) : (sources[i]["pagesFetched"] = 0) => (sources[i]["memberCount"] = 0 /\ "notes" \in DOMAIN sources[i])
       /\ pc = "done" =>
            /\ exit = "0"
            /\ Len(disk["sources"]) = Len(repos)
            /\ Usernames(disk["people"]) = DOMAIN people_by_username

\* C9: the roster file changes only in the last step of a run that ends with status 0, and a run that
\* has ended takes no further step: a run that ends with another status has written nothing.
C9_NoWriteOnFatal == [][pc # "done" /\ (disk' # disk => (pc' = "done" /\ exit' = "0"))]_vars

\* C9 witness: without continue-on-error the second fetch of an ingestion run failed after members of the
\* first repository were merged; the file is the prior roster.
C9_Witness ==
    /\ tool = "collect_gitcode_members" /\ exit = "RuntimeError" /\ args.merge_existing
    /\ Len(sources) = 2 /\ DOMAIN people_by_username # {}
    /\ disk = existing

\* a document a migration step cannot work on as a roster
NotAnObject(d) == ~isinstance_dict(d)

NoPeopleList(d) == isinstance_dict(d) /\ ~isinstance_list(GetPeople(d))

\* C10 as stated: a migration step given a document that is not an object, or whose people is missing
\* or not a list, fails and writes nothing.
C10_Original ==
    [][(tool \in MigrationTools /\ pc = "start" /\ (NotAnObject(disk) \/ NoPeopleList(disk)))
       => (exit' \notin {"0", "running"} /\ disk' = disk)]_vars

\* C10 amended: a migration step given a document whose top level is not an object fails (SystemExit is
\* reported to the caller) and writes nothing; given an object whose people is missing or not a list it
\* does not fail: it reports success and writes the document back with no Person touched, changing at
\* most the top-level team and updatedAt.
C10_Amended ==
    [][(tool \in MigrationTools /\ pc = "start")
       => /\ NotAnObject(disk) => (exit' = "SystemExit" /\ disk' = disk)
          /\ NoPeopleList(disk) =>
               /\ exit' = "0"
               /\ ("people" \in DOMAIN disk') = ("people" \in DOMAIN disk)
               /\ GetPeople(disk') = GetPeople(disk)
               /\ Pop(Pop(disk', "team"), "updatedAt") = Pop(Pop(disk, "team"), "updatedAt")]_vars

\* C10 witness: migrate_team_to_groups_only has run on the document without people: it ended with
\* status 0 and wrote the document without team and with a new updatedAt.
C10_Witness ==
    /\ tool = "migrate_team_to_groups_only" /\ exit = "0"
    /\ "people" \notin DOMAIN disk /\ "team" \notin DOMAIN disk /\ disk["updatedAt"] = 1

\* the role names of the one repos entry of a RoleRoster, and the flag computed from them
RoleNameCnOf(d) == d["people"][1]["repos"][1]["roleNameCn"]
RoleNameOf(d) == d["people"][1]["repos"][1]["roleName"]
Classified == tool = "migrate_remove_committer_auto" /\ pc = "done"
WithoutWhitespace(s) == SelectSeq(s, LAMBDA c : c \notin {" ", "\t", "\n"})
RoleNameHasCommitter(rn) == rn # None /\ strip(lower(rn)) # <<>> /\ Contains(strip(lower(rn)), S_committer)

\* C11 as stated: the classifier is total and is true exactly when roleNameCn without
\* whitespace equals the marker case-insensitively, or roleName lowercased and trimmed
\* is non-empty and contains "committer"
C11_Original ==
    Classified =>
        /\ exit = "0"
        /\ disk["people"][1]["isCommitter"] =
              (\/ RoleNameCnOf(disk) # None /\ lower(WithoutWhitespace(RoleNameCnOf(disk))) = lower(S_committer_cn)
               \/ RoleNameHasCommitter(RoleNameOf(disk)))

\* C11 amended: the classifier is total and is true exactly when roleNameCn without
\* whitespace is one of the two spellings "U4ED3 U9889 Committer" and "U4ED3 U9889 committer"
\* of the marker (any other casing does not count), or roleName lowercased and trimmed
\* is non-empty and contains "committer"
C11_Amended ==
    Classified =>
        /\ exit = "0"
        /\ disk["people"][1]["isCommitter"] =
              (\/ RoleNameCnOf(disk) # None /\ WithoutWhitespace(RoleNameCnOf(disk)) \in {S_committer_cn, S_committer_cn_lc}
               \/ RoleNameHasCommitter(RoleNameOf(disk)))

\* classified: a marker in upper case with a role name that is no committer's is not a committer
C11_Witness ==
    /\ Classified /\ exit = "0"
    /\ RoleNameCnOf(disk) = S_committer_cn_uc
    /\ RoleNameOf(disk) = S_developer
    /\ disk["people"][1]["isCommitter"] = FALSE

\* the name the claim derives from an email: the part before the first "@", ASCII letters only, lowercased
DerivedName(email) ==
    LET at == CHOOSE i \in 1..Len(email) : email[i] = "@" /\ "@" \notin Range(SubSeq(email, 1, i - 1))
    IN  lower(SelectSeq(SubSeq(email, 1, at - 1), LAMBDA c : c \in Range(UpperCase) \cup Range(LowerCase)))
CorporateEmail(p) == Get(p, "email", None) # None /\ EMAIL_DOMAIN_RE(p["email"]) /\ DerivedName(p["email"]) # <<>>
RealNameOrEmpty(p) == IF Get(p, "realName", None) = None THEN <<>> ELSE p["realName"]
DerivationStep == tool = "refresh_realname_from_email" /\ pc = "start" /\ pc' = "done"

C13_Bounded ==
    /\ pc = "fetch_response" => page <= MaxPages
    /\ pages_fetched <= MaxPages

\* C14: the roster an ingestion run writes has its people in strictly ascending order of
\* username by code point (upper case before lower case, no username twice), and its
\* sources hold one entry per distinct repository target, in the order of processing
C14_SortedOutput ==
    (tool = "collect_gitcode_members" /\ exit = "0") =>
        /\ \A i \in 1..(Len(disk["people"]) - 1) : StrLess(disk["people"][i]["username"], disk["people"][i + 1]["username"])
        /\ Len(disk["sources"]) = Len(repos)
        /\ \A i \in 1..Len(repos) : <<disk["sources"][i]["owner"], disk["sources"][i]["repo"]>> = repos[i]
        /\ \A i, j \in 1..Len(repos) : repos[i] = repos[j] => i = j
        /\ Range(repos) = Range(args.repos)

\* written: Bob before alice, a Source for the repository fetched and one for the repository that failed
C14_Witness ==
    /\ tool = "collect_gitcode_members" /\ exit = "0"
    /\ Len(disk["people"]) = 2
    /\ disk["people"][1]["username"] = <<"B", "o", "b">>
    /\ disk["people"][2]["username"] = S_alice
    /\ Len(disk["sources"]) = 2
    /\ "notes" \notin DOMAIN disk["sources"][1]
    /\ "notes" \in DOMAIN disk["sources"][2]
    /\ Len(args.repos) = 3

CollapseStep == tool = "migrate_team_to_groups_only" /\ pc = "start" /\ pc' = "done"

\* C15: the collapse-membership migration removes the top-level team and every Person's
\* team; a groups list of more than one entry becomes the list of its first entry, a
\* groups list of zero or one entry (or no groups key) stays as it is; no other field of
\* a Person changes
C15_Collapse ==
    [][CollapseStep =>
          /\ "team" \notin DOMAIN disk'
          /\ Len(disk'["people"]) = Len(disk["people"])
          /\ \A i \in 1..Len(disk["people"]) :
                LET p == disk["people"][i]
                    q == disk'["people"][i]
                IN  /\ DOMAIN q = DOMAIN p \ {"team"}
                    /\ \A k \in DOMAIN q \ {"groups"} : q[k] = p[k]
                    /\ "groups" \in DOMAIN p =>
                          q["groups"] = IF Len(p["groups"]) > 1 THEN <<Head(p["groups"])>> ELSE p["groups"]]_vars

\* collapsed: the curated Person, stored with the groups teamA and teamB and a team, has
\* the one group teamA and no team, next to a Person whose single group teamC was kept
C15_Witness ==
    /\ tool = "migrate_team_to_groups_only" /\ exit = "0"
    /\ "team" \notin DOMAIN disk
    /\ Len(disk["people"]) = 2
    /\ disk["people"][2]["notes"] = S_lead
    /\ disk["people"][2]["groups"] = <<"teamA">>
    /\ "team" \notin DOMAIN disk["people"][2]
    /\ Get(disk["people"][1], "groups", <<>>) = <<"teamC">>

\* C16: when the Reconciler merges an observation into a prior record (accumulated in this
\* run or taken from the prior roster), every repos entry of the prior record stays at its
\* place with its key and its role fields unchanged, and the observed entry is appended
\* exactly when the prior record has no entry for the key; a role refresh that rewrites
\* role fields does it in place, keeping every entry's key and position
C16_MergeKeepsRoleFields ==
    /\ [][(pc = "collect_members" /\ ValidMember /\ PriorRecord(strip(members[mi]["username"])) # EmptyDict)
          => LET u == strip(members[mi]["username"])
                 before == ReposOf(PriorRecord(u))
                 after == people_by_username'[u]["repos"]
             IN  /\ Len(after) >= Len(before)
                 /\ \A i \in 1..Len(before) : KeyOf(after[i]) = KeyOf(before[i]) /\ RoleFields(after[i]) = RoleFields(before[i])
                 /\ IF EntriesAt(before, repos[idx]) = {} THEN after = Append(before, FreshEntry)
                    ELSE after = before]_vars
    /\ [][(pc = "refresh_repo" /\ team' # team)
          => \A i \in 1..Len(PeopleOf(team)) :
                LET before == ReposOf(team["people"][i])
                    after == ReposOf(team'["people"][i])
                IN  Len(after) = Len(before) /\ \A j \in 1..Len(before) : KeyOf(after[j]) = KeyOf(before[j])]_vars

\* merged: alice, stored as a developer of r2, was returned by r2 as a committer and folded
\* in; her entry for r2 is still the stored one
C16_Witness ==
    /\ pc = "collect_members" /\ idx = 2 /\ mi = 2 /\ repos[2] = K2
    /\ members[1] = M_alice_committer
    /\ S_alice \in DOMAIN people_by_username
    /\ people_by_username[S_alice]["repos"] = <<EntryFailed(K1), EntryDeveloper(K2)>>

IsConfirmed(p) == Get(p, "isConfirmed", FALSE) = TRUE
RefreshSkippingConfirmed == tool = "refresh_member_roles" /\ ~args.include_confirmed

\* every repository the run fetches is referenced by a Person that is not confirmed
C17_FetchedForUnconfirmed ==
    (RefreshSkippingConfirmed /\ pc = "refresh_repo") =>
        \A k \in 1..Len(repos) :
            \E i \in 1..Len(PeopleOf(disk)) : ~IsConfirmed(disk["people"][i]) /\ EntriesAt(ReposOf(disk["people"][i]), repos[k]) # {}

\* no step of the run, and not the write of the roster, changes a repos entry of a confirmed Person
C17_ConfirmedKept ==
    RefreshSkippingConfirmed =>
        /\ \A i \in 1..Len(PeopleOf(team)) :
              IsConfirmed(team["people"][i]) => IsConfirmed(team'["people"][i]) /\ ReposOf(team'["people"][i]) = ReposOf(team["people"][i])
        /\ disk' # disk =>
              /\ Len(PeopleOf(disk')) = Len(PeopleOf(disk))
              /\ \A i \in 1..Len(PeopleOf(disk)) :
                    IsConfirmed(disk["people"][i]) => ReposOf(disk'["people"][i]) = ReposOf(disk["people"][i])

\* C17: in a role refresh run without --include-confirmed, no repos entry of a confirmed
\* Person has its permission, roleName, roleNameCn, accessLevel or permissions (or any
\* other field) changed, and no repository is fetched that only confirmed Persons reference
C17_ConfirmedExcluded == []C17_FetchedForUnconfirmed /\ [][C17_ConfirmedKept]_vars

\* refreshed: only r2 was fetched; bob's entry for r2 carries the fetched role, the
\* confirmed alice on the same roster has her stored entry for r1
C17_Witness ==
    /\ RefreshSkippingConfirmed /\ exit = "0" /\ repos = <<K2>> /\ args.repos = <<>>
    /\ Len(PeopleOf(disk)) = 2
    /\ IsConfirmed(disk["people"][1]) /\ disk["people"][1]["repos"] = <<EntryCommitter(K1)>>
    /\ disk["people"][2]["repos"][1]["roleName"] = S_Committer_sp

KeysOf(p) == {KeyOf(ReposOf(p)[i]) : i \in 1..Len(ReposOf(p))}

\* C18: at every step of an ingestion run, a failing repository included, the usernames
\* accumulated so far and each accumulated Person's (owner, repo) keys are supersets of
\* what they were; the targets are taken in listed order and a repository that fails
\* leaves the accumulated records as they are
C18_Monotonic ==
    [][tool = "collect_gitcode_members" =>
          /\ DOMAIN people_by_username \subseteq DOMAIN people_by_username'
          /\ \A u \in DOMAIN people_by_username : KeysOf(people_by_username[u]) \subseteq KeysOf(people_by_username'[u])
          /\ idx' \in {idx, idx + 1}
          /\ (pc = "collect_repo" /\ pc' # "collect_members") => people_by_username' = people_by_username]_vars

\* accumulated: r2 failed under --continue-on-error after r1 had returned alice and bob;
\* both are still accumulated with their entries for r1
C18_Witness ==
    /\ tool = "collect_gitcode_members" /\ pc = "collect_repo" /\ args.continue_on_error
    /\ idx = 3 /\ Len(sources) = 2
    /\ "notes" \notin DOMAIN sources[1] /\ "notes" \in DOMAIN sources[2]
    /\ DOMAIN people_by_username = {S_alice, S_bob}
    /\ \A u \in {S_alice, S_bob} : K1 \in KeysOf(people_by_username[u])

\* C19 as stated: no Person the Reconciler has returned carries isCommitterManual,
\* isCommitterAuto or the per-person team
C19_Original ==
    tool = "collect_gitcode_members" =>
        \A u \in DOMAIN people_by_username : DOMAIN people_by_username[u] \cap {"isCommitterManual", "isCommitterAuto", "team"} = {}

C19_NoManual ==
    tool = "collect_gitcode_members" =>
        \A u \in DOMAIN people_by_username : "isCommitterManual" \notin DOMAIN people_by_username[u]

C19_OthersKept ==
    (pc = "collect_members" /\ ValidMember /\ PriorRecord(strip(members[mi]["username"])) # EmptyDict) =>
        LET prior == PriorRecord(strip(members[mi]["username"]))
            after == people_by_username'[strip(members[mi]["username"])]
        IN  \A k \in {"isCommitterAuto", "team"} :
               /\ k \in DOMAIN after <=> k \in DOMAIN prior
               /\ k \in DOMAIN prior => after[k] = prior[k]

\* C19 amended: the Person merge_person returns never carries isCommitterManual; the
\* other deprecated fields are not stripped by the Reconciler: isCommitterAuto and the
\* per-person team are in the result, with their values, exactly when the prior record
\* has them
C19_Amended == []C19_NoManual /\ [][C19_OthersKept]_vars

\* merged: the curated alice, stored with isCommitterManual and a team, is accumulated
\* without isCommitterManual and with her team
C19_Witness ==
    /\ tool = "collect_gitcode_members"
    /\ S_alice \in DOMAIN people_by_username
    /\ people_by_username[S_alice]["notes"] = S_lead
    /\ "isCommitterManual" \notin DOMAIN people_by_username[S_alice]
    /\ Get(people_by_username[S_alice], "team", <<>>) = S_core

====
